---- MODULE Spec2Model ----
(***************************************************************************)
(* Aurora Life OS: the time-slot scheduling engine.                        *)
(*                                                                         *)
(*   SpecSlots   AutonomousSchedulingService._find_available_slots         *)
(*   SpecSuggest the same after _get_calendar_events at a request time     *)
(*   SpecScorer  AutonomousSchedulingService._find_best_slot_for_task      *)
(*   SpecMatch   AutonomousSchedulingService._match_tasks_to_slots         *)
(*   SpecPlacer  intelligent_task_breakdown with create_routine_blocks,    *)
(*               find_next_work_slot and schedule_task_sequentially        *)
(*   SpecSequential  one call of schedule_task_sequentially               *)
(*   SpecConcurrent  two requests of intelligent_task_breakdown at once    *)
(*   SpecReschedule  AICalendarService.smart_reschedule_dependent_events   *)
(*               with _find_conflict_free_slot                             *)
(*                                                                         *)
(* A datetime is a whole number of minutes counted from 00:00 of the day   *)
(* on which the request is made (datetime.now().date() is date 0); a date  *)
(* is a whole number of days from that day; a time of day is a number of   *)
(* minutes in 0..1439.                                                     *)
(***************************************************************************)
EXTENDS Integers, Sequences, FiniteSets, TLC

VARIABLES
    today_weekday,      \* weekday of datetime.now().date(), 0 = Monday
    \* ---- _find_available_slots
    calendar_events,    \* the calendar_events argument
    preferences,        \* the preferences argument
    day_offset,         \* loop variable of "for day_offset in range(days_ahead)"
    day_events,         \* the sorted events of check_date
    ev_idx,             \* position of "for event in day_events"
    current_time,       \* the cursor
    available_slots,    \* the list under construction / returned
    fa_pc,              \* "day", "walk", "done"
    \* ---- _find_best_slot_for_task
    task,               \* the task argument
    slot_list,          \* the available_slots argument
    energy_patterns,    \* the energy_patterns argument
    best_slot,          \* the returned value: << >> is None, <<s>> a slot
    bs_pc,              \* "call", "returned"
    \* ---- _match_tasks_to_slots
    match,              \* the loop over the pending tasks: tasks, idx,
                        \* used_slots, scheduled_tasks
    \* ---- intelligent_task_breakdown and schedule_task_sequentially
    now,                \* datetime.now() at the request
    user_context,       \* the routine text, as the times its patterns match
    db_events,          \* the user's CalendarEvent rows, in table order
    req,                \* the state of each batch-placement request
    \* ---- smart_reschedule_dependent_events
    store,              \* the committed CalendarEvent rows, in table order
    rs                  \* the state of the call and of its session

vars_slots  == <<calendar_events, preferences, day_offset, day_events, ev_idx,
                 current_time, available_slots, fa_pc>>
vars_scorer == <<task, slot_list, energy_patterns, best_slot, bs_pc, match>>
vars_placer == <<now, user_context, db_events, req>>
vars_resched == <<store, rs>>
vars == <<today_weekday, vars_slots, vars_scorer, vars_placer, vars_resched>>

-----------------------------------------------------------------------------
(* Bounds of the model.                                                    *)

MaxEvents == 2          \* calendar events given to the availability finder
DaysAhead == 2          \* the days_ahead argument of the availability finder
MaxSlots == 2           \* slots in the list given to the slot scorer
MaxMatchTasks == 2      \* pending tasks given to _match_tasks_to_slots
MaxTasks == 2           \* tasks in one batch of intelligent_task_breakdown
MaxDbEvents == 1        \* calendar events stored before a placement request
MaxConcurrentTasks == 1 \* tasks in each batch of two concurrent requests
MaxDependents == 2      \* rows after the moved event that may depend on it
MaxRecursion == 12      \* nested calls of schedule_task_sequentially before
                        \* the interpreter raises RecursionError

-----------------------------------------------------------------------------
(* datetime arithmetic                                                     *)

MinutesPerDay == 24 * 60

\* datetime.date()
DateOf(t) == t \div MinutesPerDay

\* datetime.time(), in minutes
TimeOf(t) == t % MinutesPerDay

\* datetime.hour
HourOf(t) == (t % MinutesPerDay) \div 60

\* datetime.combine(date, time)
Combine(d, tod) == d * MinutesPerDay + tod

\* timedelta.seconds // 60 of a difference d of whole minutes: a timedelta is
\* normalised to days and 0 <= seconds < 86400, so a negative difference of
\* less than a day has seconds = 86400 - |d| * 60.
SecondsDiv60(d) == d % MinutesPerDay

WeekdayNames ==
    <<"Monday", "Tuesday", "Wednesday", "Thursday", "Friday", "Saturday", "Sunday">>

\* date.strftime('%A') of the date d days after today
DayName(d) == WeekdayNames[((today_weekday + d) % 7) + 1]

Max(a, b) == IF a >= b THEN a ELSE b
Min(a, b) == IF a <= b THEN a ELSE b

\* All sequences over S of length 0..n.
SeqsUpTo(S, n) == UNION {[1..k -> S] : k \in 0..n}

-----------------------------------------------------------------------------
(* _get_user_preferences and _find_available_slots                         *)

\* The record _get_user_preferences returns.
DefaultPreferences ==
    [work_start |-> 9 * 60, work_end |-> 18 * 60, lunch_start |-> 12 * 60,
     lunch_duration |-> 60, min_task_duration |-> 15,
     no_work_days |-> {"Sunday"}]

\* Preference records given to the finder: the defaults, and the defaults
\* with a longer minimal task duration.
PreferenceRecords ==
    {DefaultPreferences, [DefaultPreferences EXCEPT !.min_task_duration = 60]}

\* Start times of day and durations of the calendar events of the model:
\* before work, in the morning, up to lunch, inside lunch, in the afternoon,
\* after work; of no length, an hour, two hours.
CalendarEventRecords ==
    {[start_time |-> Combine(d, s), end_time |-> Combine(d, s) + len] :
        d \in 0..(DaysAhead - 1),
        s \in {7 * 60, 10 * 60, 11 * 60, 12 * 60 + 30, 14 * 60, 19 * 60},
        len \in {0, 60, 120}}

\* list.sort(key=lambda x: x['start_time']): a stable sort.
RECURSIVE InsertByStart(_, _)
InsertByStart(e, s) ==
    IF s = << >> THEN <<e>>
    ELSE IF e.start_time < Head(s).start_time THEN <<e>> \o s
    ELSE <<Head(s)>> \o InsertByStart(e, Tail(s))

RECURSIVE SortByStart(_)
SortByStart(s) ==
    IF s = << >> THEN << >>
    ELSE InsertByStart(s[Len(s)], SortByStart(SubSeq(s, 1, Len(s) - 1)))

\* [e for e in calendar_events if e['start_time'].date() == check_date]
RECURSIVE EventsOnDate(_, _)
EventsOnDate(events, check_date) ==
    IF events = << >> THEN << >>
    ELSE (IF DateOf(Head(events).start_time) = check_date
          THEN <<Head(events)>> ELSE << >>)
         \o EventsOnDate(Tail(events), check_date)

\* The events of check_date, sorted by start time.
DayEvents(events, check_date) == SortByStart(EventsOnDate(events, check_date))

WorkStartOf(prefs, check_date) == Combine(check_date, prefs.work_start)
WorkEndOf(prefs, check_date)   == Combine(check_date, prefs.work_end)
LunchStartOf(prefs, check_date) == Combine(check_date, prefs.lunch_start)
LunchEndOf(prefs, check_date) == LunchStartOf(prefs, check_date) + prefs.lunch_duration

SlotType(t) == IF HourOf(t) >= 12 THEN "afternoon" ELSE "morning"

Slot(start, end, duration, check_date, type) ==
    [start_time |-> start, end_time |-> end, duration_minutes |-> duration,
     date |-> check_date, type |-> type]

\* The cursor after "Add slot before lunch" in the gap before an event.
CursorAfterLunchSplit(cur, event, prefs, check_date) ==
    IF cur < LunchStartOf(prefs, check_date)
       /\ event.start_time > LunchStartOf(prefs, check_date)
    THEN LunchEndOf(prefs, check_date)
    ELSE cur

\* The slots one iteration of "for event in day_events" appends.
GapSlots(cur, event, prefs, check_date) ==
    LET ls == LunchStartOf(prefs, check_date)
        le == LunchEndOf(prefs, check_date)
        cur2 == CursorAfterLunchSplit(cur, event, prefs, check_date)
        duration == SecondsDiv60(event.start_time - cur2)
    IN  IF cur < event.start_time
        THEN (IF cur < ls /\ event.start_time > ls
                 /\ ls - cur >= prefs.min_task_duration
              THEN <<Slot(cur, ls, SecondsDiv60(ls - cur), check_date, "morning")>>
              ELSE << >>)
             \o
             (IF (cur2 >= le \/ event.start_time <= ls)
                 /\ duration >= prefs.min_task_duration
              THEN <<Slot(cur2, event.start_time, duration, check_date, SlotType(cur2))>>
              ELSE << >>)
        ELSE << >>

\* The cursor after one iteration of "for event in day_events".
CursorAfterEvent(cur, event) == event.end_time

\* The slots "Check for slot after last event" appends.
TrailingSlots(cur, prefs, check_date) ==
    LET ls == LunchStartOf(prefs, check_date)
        le == LunchEndOf(prefs, check_date)
        we == WorkEndOf(prefs, check_date)
        cur2 == IF cur < ls THEN le ELSE cur
        duration == SecondsDiv60(we - cur2)
    IN  IF cur < we
        THEN (IF cur < ls /\ ls - cur >= prefs.min_task_duration
              THEN <<Slot(cur, ls, SecondsDiv60(ls - cur), check_date, "morning")>>
              ELSE << >>)
             \o
             (IF cur2 < we /\ duration >= prefs.min_task_duration
              THEN <<Slot(cur2, we, duration, check_date, SlotType(cur2))>>
              ELSE << >>)
        ELSE << >>

-----------------------------------------------------------------------------
(* _analyze_energy_patterns (the profile) and _find_best_slot_for_task     *)

\* An optional integer: << >> is None, <<n>> is n.
None == << >>
Some(n) == <<n>>

\* The profile _analyze_energy_patterns returns when there are no mood entries.
DefaultEnergyPatterns ==
    [peak_hours |-> {10, 11, 14, 15}, low_hours |-> {13, 17, 18},
     best_days |-> {"Tuesday", "Wednesday", "Thursday"},
     patterns_available |-> FALSE]

\* Profiles given to the scorer: the default one and profiles computed from
\* mood entries, with no best day and with other best days.
EnergyPatternRecords ==
    {DefaultEnergyPatterns}
    \cup {[peak_hours |-> {10, 14}, low_hours |-> {13}, best_days |-> b,
           patterns_available |-> TRUE] : b \in {{}, {"Saturday", "Sunday", "Monday"}}}

\* Tasks given to the scorer.
TaskRecords ==
    [estimated_duration : {None, Some(0), Some(30), Some(60)},
     priority : {"medium", "urgent"},
     task_type : {"action", "research"}]

\* Slots given to the scorer: today, tomorrow and five days from now, starting
\* in a peak hour (10:00) or a low hour (13:00), 15 or 60 minutes long.
ScorerSlotDays == {0, 1, 5}
ScorerSlotStarts == {10 * 60, 13 * 60}
ScorerSlotDurations == {15, 60}

ScorerSlotRecords ==
    {Slot(Combine(d, h), Combine(d, h) + len, len, d, SlotType(Combine(d, h))) :
        d \in ScorerSlotDays, h \in ScorerSlotStarts, len \in ScorerSlotDurations}

DefaultEstimatedDuration == 30

\* task.estimated_duration or 30
RequiredDuration(t) ==
    IF t.estimated_duration = None \/ t.estimated_duration = Some(0)
    THEN DefaultEstimatedDuration
    ELSE t.estimated_duration[1]

\* A scorer that does not look at the length of the slot.
LongEnoughUnchecked(t, slot) == TRUE

\* not (slot['duration_minutes'] < (task.estimated_duration or 30))
LongEnough(t, slot) == ~(slot.duration_minutes < RequiredDuration(t))

\* Energy level scoring
EnergyScore(slot, patterns) ==
    IF HourOf(slot.start_time) \in patterns.peak_hours THEN 30
    ELSE IF HourOf(slot.start_time) \in patterns.low_hours THEN 0 - 20
    ELSE 0

\* (slot['start_time'].date() - datetime.now().date()).days
DaysAway(slot) == DateOf(slot.start_time) - 0

\* Task type preference scoring
TaskTypeScore(t, slot) ==
    IF t.task_type = "research" /\ slot.type = "morning" THEN 20
    ELSE IF t.priority = "urgent" THEN Max(0, 10 - DaysAway(slot) * 2)
    ELSE 0

\* Day of week scoring
DayOfWeekScore(slot, patterns) ==
    IF DayName(DateOf(slot.start_time)) \in patterns.best_days THEN 10 ELSE 0

SlotScore(t, slot, patterns) ==
    EnergyScore(slot, patterns) + TaskTypeScore(t, slot) + DayOfWeekScore(slot, patterns)

\* {**slot, 'score': score, 'confidence': min(0.95, 0.5 + score / 100)};
\* the confidence is kept in hundredths.
ScoredSlot(t, slot, patterns) ==
    [start_time |-> slot.start_time, end_time |-> slot.end_time,
     duration_minutes |-> slot.duration_minutes, date |-> slot.date,
     type |-> slot.type, score |-> SlotScore(t, slot, patterns),
     confidence |-> Min(95, 50 + SlotScore(t, slot, patterns))]

\* slot_scores: the scored slots that are long enough, in list order.
RECURSIVE SlotScores(_, _, _)
SlotScores(t, slots, patterns) ==
    IF slots = << >> THEN << >>
    ELSE (IF LongEnough(t, Head(slots))
          THEN <<ScoredSlot(t, Head(slots), patterns)>> ELSE << >>)
         \o SlotScores(t, Tail(slots), patterns)

\* max(slot_scores, key=lambda x: x['score']): the first element of maximal score.
RECURSIVE MaxByScore(_)
MaxByScore(scored) ==
    IF Len(scored) = 1 THEN scored[1]
    ELSE LET rest == MaxByScore(Tail(scored))
         IN  IF rest.score > Head(scored).score THEN rest ELSE Head(scored)

\* _find_best_slot_for_task
FindBestSlotForTask(t, slots, patterns) ==
    IF slots = << >> THEN None
    ELSE IF SlotScores(t, slots, patterns) # << >>
         THEN Some(MaxByScore(SlotScores(t, slots, patterns)))
         ELSE None

ScorerInputs ==
    /\ task \in TaskRecords
    /\ slot_list \in SeqsUpTo(ScorerSlotRecords, MaxSlots)
    /\ energy_patterns \in EnergyPatternRecords
    /\ best_slot = None
    /\ bs_pc = "call"
    /\ match = [pc |-> "idle"]

ScorerIdle ==
    /\ task = [estimated_duration |-> None, priority |-> "medium", task_type |-> "action"]
    /\ slot_list = << >>
    /\ energy_patterns = DefaultEnergyPatterns
    /\ best_slot = None
    /\ bs_pc = "idle"
    /\ match = [pc |-> "idle"]

\* One call of _find_best_slot_for_task.
FindBestSlot ==
    /\ bs_pc = "call"
    /\ best_slot' = FindBestSlotForTask(task, slot_list, energy_patterns)
    /\ bs_pc' = "returned"
    /\ UNCHANGED <<today_weekday, task, slot_list, energy_patterns, match, vars_slots,
                   vars_placer, vars_resched>>

\* ---- _match_tasks_to_slots

\* Pending tasks: the tasks of the scorer with a scheduled_for that is absent,
\* in the past or in the future.
PendingTaskRecords ==
    [estimated_duration : {None, Some(60)},
     priority : {"medium", "urgent"},
     task_type : {"action", "research"},
     scheduled_for : {None, Some(Combine(0 - 1, 9 * 60)), Some(Combine(1, 9 * 60))}]

\* The lists of slots _find_available_slots can give: no two slots start at
\* the same time.
AvailableSlotLists ==
    {l \in SeqsUpTo(ScorerSlotRecords, MaxSlots) :
        \A i, j \in 1..Len(l) : i # j => l[i].start_time # l[j].start_time}

\* task.scheduled_for and task.scheduled_for > datetime.now(); now is 00:00 of
\* day 0 plus any time of that day, before every slot of the list.
AlreadyScheduled(t) == t.scheduled_for # None /\ t.scheduled_for[1] > 0

\* [s for s in slots if s not in used_slots]: list membership by dict equality.
UnusedSlots(slots, used_slots) ==
    SelectSeq(slots, LAMBDA s : ~(\E k \in 1..Len(used_slots) : used_slots[k] = s))

\* The entry of scheduled_tasks for a task and its best slot.
ScheduledTask(task_id, t, slot) ==
    [task_id |-> task_id, scheduled_time |-> slot.start_time,
     duration_minutes |-> Min(RequiredDuration(t), slot.duration_minutes),
     confidence |-> slot.confidence]

MatchInputs ==
    /\ task = [estimated_duration |-> None, priority |-> "medium", task_type |-> "action"]
    /\ slot_list \in AvailableSlotLists
    /\ energy_patterns \in {p \in EnergyPatternRecords : p.best_days # {}}
    /\ best_slot = None
    /\ bs_pc = "idle"
    /\ match \in {[pc |-> "loop", tasks |-> tasks, idx |-> 1, used_slots |-> << >>,
                    scheduled_tasks |-> << >>] :
                       tasks \in SeqsUpTo(PendingTaskRecords, MaxMatchTasks)}

MatchTask == match.tasks[match.idx]

\* The slot _find_best_slot_for_task returns for the task of this iteration.
MatchBestSlot ==
    FindBestSlotForTask(MatchTask, UnusedSlots(slot_list, match.used_slots), energy_patterns)

MatchOthersUnchanged ==
    UNCHANGED <<today_weekday, task, slot_list, energy_patterns, best_slot, bs_pc,
                vars_slots, vars_placer, vars_resched>>

\* "Skip if task already scheduled": continue
MatchSkipScheduled ==
    /\ match.pc = "loop"
    /\ match.idx <= Len(match.tasks)
    /\ AlreadyScheduled(MatchTask)
    /\ match' = [match EXCEPT !.idx = @ + 1]
    /\ MatchOthersUnchanged

\* if best_slot: the entry is appended and the scored slot is remembered.
MatchAssign ==
    /\ match.pc = "loop"
    /\ match.idx <= Len(match.tasks)
    /\ ~AlreadyScheduled(MatchTask)
    /\ MatchBestSlot # None
    /\ match' = [match EXCEPT
                    !.scheduled_tasks =
                        Append(@, ScheduledTask(match.idx, MatchTask, MatchBestSlot[1])),
                    !.used_slots = Append(@, MatchBestSlot[1]),
                    !.idx = @ + 1]
    /\ MatchOthersUnchanged

\* best_slot is None: the task stays unscheduled.
MatchNoSlot ==
    /\ match.pc = "loop"
    /\ match.idx <= Len(match.tasks)
    /\ ~AlreadyScheduled(MatchTask)
    /\ MatchBestSlot = None
    /\ match' = [match EXCEPT !.idx = @ + 1]
    /\ MatchOthersUnchanged

\* return scheduled_tasks
MatchReturn ==
    /\ match.pc = "loop"
    /\ match.idx > Len(match.tasks)
    /\ match' = [match EXCEPT !.pc = "returned"]
    /\ MatchOthersUnchanged

-----------------------------------------------------------------------------
(* create_routine_blocks, find_next_work_slot, schedule_task_sequentially  *)
(* and the scheduling loop of intelligent_task_breakdown                   *)

\* The routine text as the times of day its patterns match; None where a
\* pattern does not match. work is None or Some([start, end]).
Routine(wake, gym, lunch, dinner, sleep, work) ==
    [wake |-> wake, gym |-> gym, lunch |-> lunch, dinner |-> dinner,
     sleep |-> sleep, work |-> work]

WorkHours(start, end) == Some([start |-> start, end |-> end])

\* Routine texts of the model:
\*   ""                                       no pattern at all
\*   "Gym: 06:00"
\*   "Wake: 06:00, Gym: 07:45, Work: 09:00-18:00"
\*   "Wake: 07:00, Gym: 19:30, Lunch: 12:00, Dinner: 21:30, Sleep: 23:00,
\*    Work: 09:00-18:00"
\*   "Lunch: 12:00, Work: 09:00-17:00"
\*   "Sleep: 23:00, Work: 09:00-02:00"        a work end hour <= 6
\*   "Work: 09:00-02:00"                      the same without a sleep time
RoutineTexts ==
    { Routine(None, None, None, None, None, None),
      Routine(None, Some(6 * 60), None, None, None, None),
      Routine(Some(6 * 60), Some(7 * 60 + 45), None, None, None,
              WorkHours(9 * 60, 18 * 60)),
      Routine(Some(7 * 60), Some(19 * 60 + 30), Some(12 * 60), Some(21 * 60 + 30),
              Some(23 * 60), WorkHours(9 * 60, 18 * 60)),
      Routine(None, None, Some(12 * 60), None, None, WorkHours(9 * 60, 17 * 60)),
      Routine(None, None, None, None, Some(23 * 60), WorkHours(9 * 60, 2 * 60)),
      Routine(None, None, None, None, None, WorkHours(9 * 60, 2 * 60)) }

BufferMinutes == 15

Block(start, end, type) == [start |-> start, end |-> end, type |-> type]

\* blocks.sort(key=lambda x: x['start']): a stable sort.
RECURSIVE InsertBlock(_, _)
InsertBlock(b, s) ==
    IF s = << >> THEN <<b>>
    ELSE IF b.start < Head(s).start THEN <<b>> \o s
    ELSE <<Head(s)>> \o InsertBlock(b, Tail(s))

RECURSIVE SortBlocks(_)
SortBlocks(s) ==
    IF s = << >> THEN << >>
    ELSE InsertBlock(s[Len(s)], SortBlocks(SubSeq(s, 1, Len(s) - 1)))

\* create_routine_blocks(user_context, date)
CreateRoutineBlocks(ctx, d) ==
    LET wake == IF ctx.wake # None
                THEN <<Block(Combine(d, 0), Combine(d, ctx.wake[1]), "sleep/wake")>>
                ELSE << >>
        gym == IF ctx.gym # None
               THEN <<Block(Combine(d, ctx.gym[1]) - 30, Combine(d, ctx.gym[1]) + 90, "gym")>>
               ELSE << >>
        lunch == IF ctx.lunch # None
                 THEN <<Block(Combine(d, ctx.lunch[1]), Combine(d, ctx.lunch[1]) + 60, "lunch")>>
                 ELSE << >>
        dinner == IF ctx.dinner # None
                  THEN <<Block(Combine(d, ctx.dinner[1]), Combine(d, ctx.dinner[1]) + 90, "dinner")>>
                  ELSE << >>
        sleep == IF ctx.sleep # None
                 THEN <<Block(Combine(d, ctx.sleep[1]), Combine(d + 1, 23 * 60 + 59), "sleep")>>
                 ELSE << >>
        prework == IF ctx.work # None /\ ctx.wake # None
                      /\ ctx.wake[1] < ctx.work[1].start
                   THEN <<Block(Combine(d, ctx.wake[1]), Combine(d, ctx.work[1].start), "pre-work")>>
                   ELSE << >>
        postwork == IF ctx.work # None /\ ctx.sleep # None
                       /\ Combine(d, ctx.work[1].end) < Combine(d, ctx.sleep[1])
                    THEN <<Block(Combine(d, ctx.work[1].end), Combine(d, ctx.sleep[1]), "post-work")>>
                    ELSE << >>
    IN  SortBlocks(wake \o gym \o lunch \o dinner \o sleep \o prework \o postwork)

\* The work start both functions use: the text's, or 09:00.
WorkStartTime(ctx) == IF ctx.work # None THEN ctx.work[1].start ELSE 9 * 60

\* The work end of find_next_work_slot: the text's, or 18:00; an end hour <= 6
\* is replaced by 19:00.
NextSlotWorkEndTime(ctx) ==
    LET given == IF ctx.work # None THEN ctx.work[1].end ELSE 18 * 60
    IN  IF given \div 60 <= 6 THEN 19 * 60 ELSE given

\* The work end of schedule_task_sequentially: the text's, or 18:00.
SequentialWorkEndTime(ctx) == IF ctx.work # None THEN ctx.work[1].end ELSE 18 * 60

\* The work end of the "trying today first" branch: the text's, or 19:00.
BreakdownWorkEndTime(ctx) == IF ctx.work # None THEN ctx.work[1].end ELSE 19 * 60

\* The first element of sequence s from position i on that satisfies Test, as
\* an optional position.
RECURSIVE FirstBlockAt(_, _, _)
FirstBlockAt(blocks, i, t) ==
    IF i > Len(blocks) THEN None
    ELSE IF t >= blocks[i].start /\ t < blocks[i].end THEN Some(i)
    ELSE FirstBlockAt(blocks, i + 1, t)

MaxAttempts == 50

\* The while loop of find_next_work_slot.
RECURSIVE NextWorkSlotLoop(_, _, _, _)
NextWorkSlotLoop(cur, attempts, blocks, ctx) ==
    IF attempts < MaxAttempts
    THEN LET hit == FirstBlockAt(blocks, 1, cur)
         IN  IF hit # None
             THEN NextWorkSlotLoop(blocks[hit[1]].end + BufferMinutes, attempts + 1, blocks, ctx)
             ELSE IF cur >= Combine(DateOf(cur), NextSlotWorkEndTime(ctx))
                  THEN Combine(DateOf(cur) + 1, WorkStartTime(ctx))
                  ELSE cur
    ELSE Combine(DateOf(cur) + 1, WorkStartTime(ctx))

\* find_next_work_slot(start_time, routine_blocks, user_context); today is date
\* 0 and tomorrow date 1.
FindNextWorkSlot(start_time, blocks, ctx) ==
    LET ws == WorkStartTime(ctx)
        we == NextSlotWorkEndTime(ctx)
        late == TimeOf(start_time) >= we \/ HourOf(start_time) >= 22
        outside == \/ TimeOf(start_time) < ws
                   \/ late
                   \/ HourOf(start_time) < 6
    IN  IF outside /\ late /\ DateOf(start_time) >= 1
        THEN Combine(1, ws)
        ELSE NextWorkSlotLoop(
                 IF outside
                 THEN (IF late THEN Combine(DateOf(start_time + MinutesPerDay), ws)
                       ELSE Combine(DateOf(start_time), ws))
                 ELSE start_time,
                 0, blocks, ctx)

\* for start_hour in [...]: the "trying today first" loop of
\* intelligent_task_breakdown, from position i of its list of hours on.
RECURSIVE TryStartHours(_, _, _, _, _, _)
TryStartHours(hours, i, cst, t, blocks, ctx) ==
    IF i > Len(hours) THEN cst
    ELSE LET h == hours[i]
             test_time == Combine(0, Max(11, h) * 60)
         IN  IF h < BreakdownWorkEndTime(ctx) \div 60 /\ h > HourOf(t) /\ test_time > t
             THEN LET found == FindNextWorkSlot(test_time, blocks, ctx)
                  IN  IF DateOf(found) <= 1 THEN found
                      ELSE TryStartHours(hours, i + 1, found, t, blocks, ctx)
             ELSE TryStartHours(hours, i + 1, cst, t, blocks, ctx)

\* The time from which intelligent_task_breakdown starts to place the batch.
InitialSchedulingTime(t, blocks, ctx) ==
    LET first == FindNextWorkSlot(t, blocks, ctx)
        weh == BreakdownWorkEndTime(ctx) \div 60
    IN  IF DateOf(first) > 1
        THEN TryStartHours(<<HourOf(t) + 1, weh - 2, weh - 1>>, 1, first, t, blocks, ctx)
        ELSE first

\* The rows the query of schedule_task_sequentially returns: the events whose
\* start_time lies between 00:00:00 and 23:59:59 of the date of t.
RECURSIVE EventsStartingOn(_, _)
EventsStartingOn(events, d) ==
    IF events = << >> THEN << >>
    ELSE (IF DateOf(Head(events).start_time) = d THEN <<Head(events)>> ELSE << >>)
         \o EventsStartingOn(Tail(events), d)

ExistingEvents(events, t) == EventsStartingOn(events, DateOf(t))

\* current_time < x.end and task_end_time > x.start
Overlaps(t, task_end, start, end) == t < end /\ task_end > start

\* The first routine block the task overlaps, as an optional position.
RECURSIVE FirstBlockConflict(_, _, _, _)
FirstBlockConflict(blocks, i, t, task_end) ==
    IF i > Len(blocks) THEN None
    ELSE IF Overlaps(t, task_end, blocks[i].start, blocks[i].end) THEN Some(i)
    ELSE FirstBlockConflict(blocks, i + 1, t, task_end)

\* The first existing event the task overlaps, as an optional position.
RECURSIVE FirstEventConflict(_, _, _, _)
FirstEventConflict(events, i, t, task_end) ==
    IF i > Len(events) THEN None
    ELSE IF Overlaps(t, task_end, events[i].start_time, events[i].end_time) THEN Some(i)
    ELSE FirstEventConflict(events, i + 1, t, task_end)

\* task_end_time > work_end_datetime
RunsPastWorkEnd(t, duration, ctx) ==
    t + duration > Combine(DateOf(t), SequentialWorkEndTime(ctx))

\* The check of the returned date with a limit one day too late.
BeyondTomorrowLax(t) == DateOf(t) > DateOf(now) + 2

\* tomorrow = today + timedelta(days=1); <datetime>.date() > tomorrow
BeyondTomorrow(t) == DateOf(t) > DateOf(now) + 1

\* Start times and lengths of the events stored before a request: an hour in
\* the morning, the end of the afternoon, most of tomorrow, and an event that
\* started yesterday evening and ends this morning.
StoredEventRecords ==
    { [start_time |-> Combine(0, 10 * 60), end_time |-> Combine(0, 11 * 60)],
      [start_time |-> Combine(0, 16 * 60), end_time |-> Combine(0, 18 * 60)],
      [start_time |-> Combine(1, 9 * 60), end_time |-> Combine(1, 17 * 60)],
      [start_time |-> Combine(0 - 1, 22 * 60), end_time |-> Combine(0, 10 * 60 + 30)] }

\* duration_minutes of the tasks of a batch; the last is longer than a work day.
TaskDurations == {30, 90, 600}

\* datetime.now() of a request: before work, in the morning, late in the
\* afternoon, in the evening.
RequestTimes == {Combine(0, 8 * 60), Combine(0, 10 * 60), Combine(0, 16 * 60 + 30),
                 Combine(0, 19 * 60)}

\* task_start_time of a single call of schedule_task_sequentially.
TaskStartTimes == {Combine(0, 6 * 60), Combine(0, 8 * 60), Combine(0, 10 * 60),
                   Combine(0, 17 * 60 + 45), Combine(1, 9 * 60)}

\* A request before intelligent_task_breakdown starts to schedule.
NewRequest(batch) ==
    [pc |-> "start", batch |-> batch, routine_blocks |-> << >>,
     current_scheduling_time |-> 0, idx |-> 1, current_time |-> 0, depth |-> 0,
     scheduled_events |-> << >>]

\* One call schedule_task_sequentially(start, duration, blocks, ...).
SingleCall(start, duration, blocks) ==
    [pc |-> "sched", batch |-> <<duration>>, routine_blocks |-> blocks,
     current_scheduling_time |-> start, idx |-> 1, current_time |-> start,
     depth |-> 0, scheduled_events |-> << >>]

PlacerIdle ==
    /\ now = 0
    /\ user_context = Routine(None, None, None, None, None, None)
    /\ db_events = << >>
    /\ req = << >>

\* No call of smart_reschedule_dependent_events.
ReschedIdle ==
    /\ store = << >>
    /\ rs = [pc |-> "idle"]

PlacerInputs ==
    /\ now \in RequestTimes
    /\ user_context \in RoutineTexts
    /\ db_events \in SeqsUpTo(StoredEventRecords, MaxDbEvents)
    /\ req \in {<<NewRequest(b)>> : b \in SeqsUpTo(TaskDurations, MaxTasks)}

SequentialInputs ==
    /\ now = 0
    /\ user_context \in RoutineTexts
    /\ db_events \in SeqsUpTo(StoredEventRecords, MaxDbEvents)
    /\ req \in {<<SingleCall(t, d, CreateRoutineBlocks(user_context, 0))>> :
                    t \in TaskStartTimes, d \in TaskDurations}

Requests == DOMAIN req

Duration(r) == req[r].batch[req[r].idx]

\* create_routine_blocks and find_next_work_slot found a start today or
\* tomorrow: the scheduling loop begins.
StartBreakdown(r) ==
    LET blocks == CreateRoutineBlocks(user_context, DateOf(now))
        cst == InitialSchedulingTime(now, blocks, user_context)
    IN  /\ req[r].pc = "start"
        /\ ~BeyondTomorrow(cst)
        /\ req' = [req EXCEPT ![r] = [@ EXCEPT !.pc = "loop", !.routine_blocks = blocks,
                                                 !.current_scheduling_time = cst]]
        /\ UNCHANGED <<today_weekday, now, user_context, db_events, vars_slots, vars_scorer, vars_resched>>

\* "Safety check - don't schedule beyond tomorrow": success False is returned.
NoSlotInTwoDays(r) ==
    LET blocks == CreateRoutineBlocks(user_context, DateOf(now))
        cst == InitialSchedulingTime(now, blocks, user_context)
    IN  /\ req[r].pc = "start"
        /\ BeyondTomorrow(cst)
        /\ req' = [req EXCEPT ![r] = [@ EXCEPT !.pc = "failed", !.routine_blocks = blocks,
                                                 !.current_scheduling_time = cst]]
        /\ UNCHANGED <<today_weekday, now, user_context, db_events, vars_slots, vars_scorer, vars_resched>>

\* for idx, event_data in enumerate(...): the call of schedule_task_sequentially
\* for the next task of the batch.
BeginTask(r) ==
    /\ req[r].pc = "loop"
    /\ req[r].idx <= Len(req[r].batch)
    /\ req' = [req EXCEPT ![r] = [@ EXCEPT !.pc = "sched", !.depth = 0,
                                             !.current_time = req[r].current_scheduling_time]]
    /\ UNCHANGED <<today_weekday, now, user_context, db_events, vars_slots, vars_scorer, vars_resched>>

\* The batch is exhausted: the response with scheduled_events is returned.
FinishBatch(r) ==
    /\ req[r].pc = "loop"
    /\ req[r].idx > Len(req[r].batch)
    /\ req' = [req EXCEPT ![r] = [@ EXCEPT !.pc = "done"]]
    /\ UNCHANGED <<today_weekday, now, user_context, db_events, vars_slots, vars_scorer, vars_resched>>

\* A nested call schedule_task_sequentially(t, ...): one more frame.
Recurse(r, t) ==
    /\ req[r].depth < MaxRecursion
    /\ req' = [req EXCEPT ![r] = [@ EXCEPT !.current_time = t, !.depth = @ + 1]]

\* The work start of the day of t itself.
SameDayWorkStart(t, ctx) == Combine(DateOf(t), WorkStartTime(ctx))

\* next_day = current_time + timedelta(days=1);
\* datetime.combine(next_day.date(), work_start_time)
NextDayWorkStart(t, ctx) == Combine(DateOf(t + MinutesPerDay), WorkStartTime(ctx))

\* "Check if task would run past work hours": the call is repeated from the
\* work start of the next day.
SchedPastWorkEnd(r) ==
    /\ req[r].pc = "sched"
    /\ RunsPastWorkEnd(req[r].current_time, Duration(r), user_context)
    /\ Recurse(r, NextDayWorkStart(req[r].current_time, user_context))
    /\ UNCHANGED <<today_weekday, now, user_context, db_events, vars_slots, vars_scorer, vars_resched>>

\* "Check for conflicts with routine blocks": the call is repeated 15 minutes
\* after the first block the task overlaps.
SchedRoutineConflict(r) ==
    LET t == req[r].current_time
        hit == FirstBlockConflict(req[r].routine_blocks, 1, t, t + Duration(r))
    IN  /\ req[r].pc = "sched"
        /\ ~RunsPastWorkEnd(t, Duration(r), user_context)
        /\ hit # None
        /\ Recurse(r, req[r].routine_blocks[hit[1]].end + BufferMinutes)
        /\ UNCHANGED <<today_weekday, now, user_context, db_events, vars_slots, vars_scorer, vars_resched>>

\* "Check for conflicts with existing calendar events": the call is repeated 15
\* minutes after the first queried event the task overlaps.
SchedEventConflict(r) ==
    LET t == req[r].current_time
        existing == ExistingEvents(db_events, t)
        hit == FirstEventConflict(existing, 1, t, t + Duration(r))
    IN  /\ req[r].pc = "sched"
        /\ ~RunsPastWorkEnd(t, Duration(r), user_context)
        /\ FirstBlockConflict(req[r].routine_blocks, 1, t, t + Duration(r)) = None
        /\ hit # None
        /\ Recurse(r, existing[hit[1]].end_time + BufferMinutes)
        /\ UNCHANGED <<today_weekday, now, user_context, db_events, vars_slots, vars_scorer, vars_resched>>

\* "No conflicts, this time slot works": current_time is returned through all
\* the nested calls.
SchedReturn(r) ==
    LET t == req[r].current_time
    IN  /\ req[r].pc = "sched"
        /\ ~RunsPastWorkEnd(t, Duration(r), user_context)
        /\ FirstBlockConflict(req[r].routine_blocks, 1, t, t + Duration(r)) = None
        /\ FirstEventConflict(ExistingEvents(db_events, t), 1, t, t + Duration(r)) = None
        /\ req' = [req EXCEPT ![r] = [@ EXCEPT !.pc = "returned"]]
        /\ UNCHANGED <<today_weekday, now, user_context, db_events, vars_slots, vars_scorer, vars_resched>>

\* The nested call that exceeds the interpreter's recursion limit raises
\* RecursionError; intelligent_task_breakdown turns it into an HTTP 500.
SchedRecursionError(r) ==
    LET t == req[r].current_time
    IN  /\ req[r].pc = "sched"
        /\ req[r].depth >= MaxRecursion
        /\ \/ RunsPastWorkEnd(t, Duration(r), user_context)
           \/ FirstBlockConflict(req[r].routine_blocks, 1, t, t + Duration(r)) # None
           \/ FirstEventConflict(ExistingEvents(db_events, t), 1, t, t + Duration(r)) # None
        /\ req' = [req EXCEPT ![r] = [@ EXCEPT !.pc = "error"]]
        /\ UNCHANGED <<today_weekday, now, user_context, db_events, vars_slots, vars_scorer, vars_resched>>

\* The returned start is after tomorrow: break, no further task is scheduled.
StopBeyondTomorrow(r) ==
    /\ req[r].pc = "returned"
    /\ BeyondTomorrow(req[r].current_time)
    /\ req' = [req EXCEPT ![r] = [@ EXCEPT !.pc = "done"]]
    /\ UNCHANGED <<today_weekday, now, user_context, db_events, vars_slots, vars_scorer, vars_resched>>

\* The event is added and committed; the next task starts 15 minutes after it.
CommitEvent(r) ==
    LET start == req[r].current_time
        placed == [start_time |-> start, end_time |-> start + Duration(r)]
    IN  /\ req[r].pc = "returned"
        /\ ~BeyondTomorrow(start)
        /\ db_events' = Append(db_events, placed)
        /\ req' = [req EXCEPT ![r] =
                      [@ EXCEPT !.pc = "loop",
                                !.scheduled_events = Append(@, placed),
                                !.current_scheduling_time = placed.end_time + BufferMinutes,
                                !.idx = @ + 1]]
        /\ UNCHANGED <<today_weekday, now, user_context, vars_slots, vars_scorer, vars_resched>>

SlotsIdle ==
    /\ calendar_events = << >>
    /\ preferences = DefaultPreferences
    /\ day_offset = 0
    /\ day_events = << >>
    /\ ev_idx = 1
    /\ current_time = 0
    /\ available_slots = << >>
    /\ fa_pc = "idle"

SlotsInputs ==
    /\ calendar_events \in SeqsUpTo(CalendarEventRecords, MaxEvents)
    /\ preferences \in PreferenceRecords
    /\ day_offset = 0
    /\ day_events = << >>
    /\ ev_idx = 1
    /\ current_time = 0
    /\ available_slots = << >>
    /\ fa_pc = "day"

\* for day_offset in range(days_ahead): a day in no_work_days is skipped.
SkipNoWorkDay ==
    /\ fa_pc = "day"
    /\ day_offset < DaysAhead
    /\ DayName(day_offset) \in preferences.no_work_days
    /\ day_offset' = day_offset + 1
    /\ UNCHANGED <<today_weekday, calendar_events, preferences, day_events, ev_idx,
                   current_time, available_slots, fa_pc, vars_scorer, vars_placer, vars_resched>>

\* A work day: its events are selected and sorted, the cursor is work_start.
BeginDay ==
    /\ fa_pc = "day"
    /\ day_offset < DaysAhead
    /\ DayName(day_offset) \notin preferences.no_work_days
    /\ day_events' = DayEvents(calendar_events, day_offset)
    /\ ev_idx' = 1
    /\ current_time' = WorkStartOf(preferences, day_offset)
    /\ fa_pc' = "walk"
    /\ UNCHANGED <<today_weekday, calendar_events, preferences, day_offset,
                   available_slots, vars_scorer, vars_placer, vars_resched>>

\* One iteration of "for event in day_events".
WalkEvent ==
    /\ fa_pc = "walk"
    /\ ev_idx <= Len(day_events)
    /\ available_slots' = available_slots
            \o GapSlots(current_time, day_events[ev_idx], preferences, day_offset)
    /\ current_time' = CursorAfterEvent(current_time, day_events[ev_idx])
    /\ ev_idx' = ev_idx + 1
    /\ UNCHANGED <<today_weekday, calendar_events, preferences, day_offset,
                   day_events, fa_pc, vars_scorer, vars_placer, vars_resched>>

\* After the last event of the day: the trailing gap, then the next day.
TrailingGap ==
    /\ fa_pc = "walk"
    /\ ev_idx > Len(day_events)
    /\ available_slots' = available_slots
            \o TrailingSlots(current_time, preferences, day_offset)
    /\ day_offset' = day_offset + 1
    /\ fa_pc' = "day"
    /\ UNCHANGED <<today_weekday, calendar_events, preferences, day_events, ev_idx,
                   current_time, vars_scorer, vars_placer, vars_resched>>

\* return available_slots
ReturnSlots ==
    /\ fa_pc = "day"
    /\ day_offset >= DaysAhead
    /\ fa_pc' = "done"
    /\ UNCHANGED <<today_weekday, calendar_events, preferences, day_offset,
                   day_events, ev_idx, current_time, available_slots, vars_scorer, vars_placer, vars_resched>>

InitSlots == today_weekday \in 0..6 /\ SlotsInputs /\ ScorerIdle /\ PlacerIdle /\ ReschedIdle

NextSlots == SkipNoWorkDay \/ BeginDay \/ WalkEvent \/ TrailingGap \/ ReturnSlots

SpecSlots == InitSlots /\ [][NextSlots]_vars

\* ---- suggest_optimal_schedule: _get_calendar_events, then _find_available_slots

\* _get_calendar_events: the user's events that start between now and now +
\* days_ahead days, ordered by start_time (rows of equal start in table order).
GetCalendarEvents(rows, t, days_ahead) ==
    SortByStart(SelectSeq(rows, LAMBDA e : /\ e.start_time >= t
                                          /\ e.start_time <= t + days_ahead * MinutesPerDay))

\* datetime.now() of a call of suggest_optimal_schedule: before work, in the
\* morning, in the afternoon.
SuggestInputs ==
    /\ now \in {Combine(0, 8 * 60), Combine(0, 10 * 60 + 30), Combine(0, 15 * 60)}
    /\ user_context = Routine(None, None, None, None, None, None)
    /\ db_events \in SeqsUpTo(CalendarEventRecords, MaxEvents)
    /\ req = << >>
    /\ calendar_events = GetCalendarEvents(db_events, now, DaysAhead)
    /\ preferences \in PreferenceRecords
    /\ day_offset = 0
    /\ day_events = << >>
    /\ ev_idx = 1
    /\ current_time = 0
    /\ available_slots = << >>
    /\ fa_pc = "day"

InitSuggest == today_weekday \in 0..6 /\ SuggestInputs /\ ScorerIdle /\ ReschedIdle

SpecSuggest == InitSuggest /\ [][NextSlots]_vars

-----------------------------------------------------------------------------
(* Claims about _find_available_slots                                      *)

\* The half-open intervals [a, b) and [c, d) have a point in common.
Intersects(a, b, c, d) == Max(a, c) < Min(b, d)

SlotIndices == 1..Len(available_slots)

\* C1: every slot returned by the availability finder lies inside the work
\* hours of its date: work_start <= slot.start_time and slot.end_time <= work_end,
\* whatever the position of the day's events relative to the work hours.
C1_SlotsWithinWorkHours ==
    \A i \in SlotIndices :
        LET s == available_slots[i]
        IN  /\ WorkStartOf(preferences, s.date) <= s.start_time
            /\ s.end_time <= WorkEndOf(preferences, s.date)

\* C2: no slot returned by the availability finder intersects the lunch
\* window [lunch_start, lunch_start + lunch_duration) of its date.
C2_NoSlotInLunch ==
    \A i \in SlotIndices :
        LET s == available_slots[i]
        IN  ~Intersects(s.start_time, s.end_time,
                        LunchStartOf(preferences, s.date), LunchEndOf(preferences, s.date))

\* C3: no slot returned by the availability finder intersects the [start, end)
\* interval of an event of its date, also when the events of the day overlap
\* each other, are nested or have start = end.
C3_NoSlotInsideEvent ==
    \A i \in SlotIndices : \A j \in 1..Len(calendar_events) :
        LET s == available_slots[i]
            e == calendar_events[j]
        IN  DateOf(e.start_time) = s.date
                => ~Intersects(s.start_time, s.end_time, e.start_time, e.end_time)

\* The events of date d are of positive length, pairwise non-overlapping and
\* inside the work hours.
TidyDay(d) ==
    LET evs == EventsOnDate(calendar_events, d)
    IN  /\ \A i \in 1..Len(evs) :
                /\ evs[i].start_time < evs[i].end_time
                /\ WorkStartOf(preferences, d) <= evs[i].start_time
                /\ evs[i].end_time <= WorkEndOf(preferences, d)
        /\ \A i, j \in 1..Len(evs) :
                i # j => ~Intersects(evs[i].start_time, evs[i].end_time,
                                     evs[j].start_time, evs[j].end_time)

\* The maximal free intervals of [work_start, work_end) of date d, without the
\* events and the lunch window, that are at least min_task_duration long.
ExpectedFree(d) ==
    LET evs == EventsOnDate(calendar_events, d)
        ws == WorkStartOf(preferences, d)
        we == WorkEndOf(preferences, d)
        busy == {<<evs[i].start_time, evs[i].end_time>> : i \in 1..Len(evs)}
                    \cup {<<LunchStartOf(preferences, d), LunchEndOf(preferences, d)>>}
        lefts == {ws} \cup {b[2] : b \in busy}
        rights == {we} \cup {b[1] : b \in busy}
        Free(a, b) == /\ ws <= a /\ a < b /\ b <= we
                      /\ \A x \in busy : ~Intersects(a, b, x[1], x[2])
    IN  {<<a, b>> \in lefts \X rights :
            Free(a, b) /\ b - a >= preferences.min_task_duration}

SlotsOfDate(d) == {i \in SlotIndices : available_slots[i].date = d}

\* C4: for a work day with pairwise non-overlapping events inside the work
\* hours the finder returns exactly the maximal free intervals of the work day
\* without the events and the lunch window that are at least
\* min_task_duration long, each once, with duration_minutes = end - start.
C4_ExactFreeIntervals ==
    fa_pc = "done" =>
        \A d \in 0..(DaysAhead - 1) :
            (DayName(d) \notin preferences.no_work_days /\ TidyDay(d)) =>
                /\ {<<available_slots[i].start_time, available_slots[i].end_time>> :
                        i \in SlotsOfDate(d)} = ExpectedFree(d)
                /\ Cardinality(SlotsOfDate(d)) = Cardinality(ExpectedFree(d))
                /\ \A i \in SlotsOfDate(d) :
                        available_slots[i].duration_minutes
                            = available_slots[i].end_time - available_slots[i].start_time

\* C29: every slot _find_available_slots returns for the current day starts
\* at or after the time of the request, and the events of the current day that
\* started before the request still block their interval.
C29_NoSlotInElapsedPartOfToday ==
    fa_pc = "done" =>
        \A i \in SlotIndices :
            LET s == available_slots[i]
            IN  DateOf(s.start_time) = DateOf(now) =>
                    /\ s.start_time >= now
                    /\ \A k \in 1..Len(db_events) :
                          (/\ DateOf(db_events[k].start_time) = DateOf(now)
                           /\ db_events[k].start_time < now)
                          => ~Intersects(s.start_time, s.end_time,
                                         db_events[k].start_time, db_events[k].end_time)

-----------------------------------------------------------------------------
(* Claims about _find_best_slot_for_task                                   *)

InitScorer == today_weekday \in 0..6 /\ ScorerInputs /\ SlotsIdle /\ PlacerIdle /\ ReschedIdle

NextScorer == FindBestSlot

SpecScorer == InitScorer /\ [][NextScorer]_vars

\* The positions of slot_list whose slot is at least as long as the task's
\* estimated duration (30 minutes when the task has none).
Candidates ==
    {i \in 1..Len(slot_list) :
        slot_list[i].duration_minutes
            >= (IF task.estimated_duration = None THEN DefaultEstimatedDuration
                ELSE task.estimated_duration[1])}

\* The positions of slot_list the scorer scores: the slot is not shorter than
\* "task.estimated_duration or 30".
Scored == {i \in 1..Len(slot_list) : LongEnough(task, slot_list[i])}

\* C5: the slot the scorer returns has duration_minutes >= the task's estimated
\* duration (30 minutes for a task without one); when the list is empty or no
\* slot is long enough the result is None.
C5_ChosenSlotLongEnough ==
    bs_pc = "returned" =>
        /\ best_slot # None =>
              best_slot[1].duration_minutes
                  >= (IF task.estimated_duration = None THEN DefaultEstimatedDuration
                      ELSE task.estimated_duration[1])
        /\ Candidates = {} => best_slot = None

\* A call that returned a slot although the list also held a slot that is too
\* short for the task.
C5_Witness ==
    /\ bs_pc = "returned"
    /\ best_slot # None
    /\ task.estimated_duration = Some(60)
    /\ \E i \in 1..Len(slot_list) : slot_list[i].duration_minutes < 60

\* C6: the scorer returns a slot of maximal score among the slots that are long
\* enough, and among several slots of that maximal score the one with the
\* earliest start_time, in whatever order the list holds them.
C6_MaxScoreEarliestOnTie ==
    (bs_pc = "returned" /\ Scored # {}) =>
        /\ best_slot # None
        /\ \A i \in Scored :
              LET sc == SlotScore(task, slot_list[i], energy_patterns)
              IN  /\ best_slot[1].score >= sc
                  /\ best_slot[1].score = sc
                        => best_slot[1].start_time <= slot_list[i].start_time

\* C7: for an urgent task of 30 minutes and two long enough slots that both
\* start in a peak hour, one tomorrow and one five days from now, the scorer
\* returns the tomorrow slot, for every energy profile and every weekday.
C7_UrgentPrefersTomorrow ==
    ( /\ bs_pc = "returned"
      /\ task.priority = "urgent"
      /\ task.estimated_duration = Some(30)
      /\ Len(slot_list) = 2
      /\ \A i \in 1..2 :
            /\ slot_list[i].duration_minutes >= 30
            /\ HourOf(slot_list[i].start_time) \in energy_patterns.peak_hours
      /\ {DaysAway(slot_list[1]), DaysAway(slot_list[2])} = {1, 5} )
    => (best_slot # None /\ DaysAway(best_slot[1]) = 1)

\* C21: with the default profile (patterns_available = FALSE) the score of a
\* slot does not depend on its start hour or weekday: two scored slots of the
\* same length that get the same task-type term have the same score.
C21_DefaultProfileGivesNoPreference ==
    (bs_pc = "returned" /\ ~energy_patterns.patterns_available) =>
        \A i, j \in Scored :
            ( /\ slot_list[i].duration_minutes = slot_list[j].duration_minutes
              /\ TaskTypeScore(task, slot_list[i]) = TaskTypeScore(task, slot_list[j]) )
            => SlotScore(task, slot_list[i], energy_patterns)
                   = SlotScore(task, slot_list[j], energy_patterns)

\* The urgency term of a slot: max(0, 10 - 2 * days_from_now).
UrgencyTerm(slot) == Max(0, 10 - 2 * (DateOf(slot.start_time) - 0))

\* C22: the score of the returned slot is the sum of all applicable terms: the
\* energy term, +20 for a research task in a morning slot, the urgency term for
\* an urgent task in every slot, and the weekday term.
C22_ScoreIsSumOfAllTerms ==
    (bs_pc = "returned" /\ best_slot # None) =>
        best_slot[1].score
            = (IF HourOf(best_slot[1].start_time) \in energy_patterns.peak_hours THEN 30
               ELSE IF HourOf(best_slot[1].start_time) \in energy_patterns.low_hours
                    THEN 0 - 20 ELSE 0)
              + (IF task.task_type = "research" /\ best_slot[1].type = "morning"
                 THEN 20 ELSE 0)
              + (IF task.priority = "urgent" THEN UrgencyTerm(best_slot[1]) ELSE 0)
              + (IF DayName(DateOf(best_slot[1].start_time)) \in energy_patterns.best_days
                 THEN 10 ELSE 0)

InitMatch == today_weekday = 0 /\ MatchInputs /\ SlotsIdle /\ PlacerIdle /\ ReschedIdle

NextMatch == MatchSkipScheduled \/ MatchAssign \/ MatchNoSlot \/ MatchReturn

SpecMatch == InitMatch /\ [][NextMatch]_vars

\* C28: within one call of _match_tasks_to_slots a slot assigned to one task
\* is not offered to a later task: no two entries of scheduled_tasks have the
\* same scheduled_time, and no two suggested tasks overlap.
C28_NoSlotSuggestedTwice ==
    match.pc = "returned" =>
        \A i, j \in 1..Len(match.scheduled_tasks) :
            i # j =>
                LET a == match.scheduled_tasks[i]
                    b == match.scheduled_tasks[j]
                IN  /\ a.scheduled_time # b.scheduled_time
                    /\ ~Intersects(a.scheduled_time, a.scheduled_time + a.duration_minutes,
                                   b.scheduled_time, b.scheduled_time + b.duration_minutes)

-----------------------------------------------------------------------------
(* Claims about the sequential task placer                                 *)

InitPlacer == today_weekday = 0 /\ PlacerInputs /\ SlotsIdle /\ ScorerIdle /\ ReschedIdle

NextPlacer ==
    \/ \E r \in Requests : StartBreakdown(r)
    \/ \E r \in Requests : NoSlotInTwoDays(r)
    \/ \E r \in Requests : BeginTask(r)
    \/ \E r \in Requests : FinishBatch(r)
    \/ \E r \in Requests : SchedPastWorkEnd(r)
    \/ \E r \in Requests : SchedRoutineConflict(r)
    \/ \E r \in Requests : SchedEventConflict(r)
    \/ \E r \in Requests : SchedReturn(r)
    \/ \E r \in Requests : SchedRecursionError(r)
    \/ \E r \in Requests : StopBeyondTomorrow(r)
    \/ \E r \in Requests : CommitEvent(r)

SpecPlacer == InitPlacer /\ [][NextPlacer]_vars

InitSequential == today_weekday = 0 /\ SequentialInputs /\ SlotsIdle /\ ScorerIdle /\ ReschedIdle

NextSequential ==
    \/ \E r \in Requests : SchedPastWorkEnd(r)
    \/ \E r \in Requests : SchedRoutineConflict(r)
    \/ \E r \in Requests : SchedEventConflict(r)
    \/ \E r \in Requests : SchedReturn(r)
    \/ \E r \in Requests : SchedRecursionError(r)

SpecSequential == InitSequential /\ [][NextSequential]_vars

\* The date of the request, and the day after it.
Today == DateOf(now)
Tomorrow == Today + 1

\* C8: every event the batch placer places starts no later than the day after
\* the request; once schedule_task_sequentially returns a later date, the
\* batch ends and no further task of it is placed.
C8_PlacedNoLaterThanTomorrow ==
    /\ [](\A r \in Requests : \A i \in 1..Len(req[r].scheduled_events) :
              DateOf(req[r].scheduled_events[i].start_time) <= Tomorrow)
    /\ [][\A r \in Requests :
              (req[r].pc = "returned" /\ DateOf(req[r].current_time) > Tomorrow)
                  => /\ req'[r].pc = "done"
                     /\ req'[r].scheduled_events = req[r].scheduled_events
                     /\ db_events' = db_events]_vars
    /\ [][\A r \in Requests : req[r].pc = "done" => (req'[r] = req[r])]_vars

\* A batch that placed a task and ended at a later task for which the
\* returned start is after tomorrow.
C8_Witness ==
    \E r \in Requests :
        /\ req[r].pc = "done"
        /\ req[r].idx <= Len(req[r].batch)
        /\ Len(req[r].scheduled_events) >= 1
        /\ DateOf(req[r].current_time) > Tomorrow

\* C9: the time schedule_task_sequentially returns, with the duration, overlaps
\* no routine block of the supplied blocks, and it is at or after the end + 15
\* minutes of every block the requested interval overlaps.
C9_ClearOfRoutineBlocks ==
    \A r \in Requests :
        req[r].pc = "returned" =>
            LET t == req[r].current_time
                asked == req[r].current_scheduling_time
                len == Duration(r)
                blocks == req[r].routine_blocks
            IN  \A i \in 1..Len(blocks) :
                    /\ ~Intersects(t, t + len, blocks[i].start, blocks[i].end)
                    /\ Intersects(asked, asked + len, blocks[i].start, blocks[i].end)
                          => t >= blocks[i].end + 15

\* C10: the interval schedule_task_sequentially returns overlaps no existing
\* event of the user, whatever the day on which the event started.
C10_ClearOfExistingEvents ==
    \A r \in Requests :
        req[r].pc = "returned" =>
            \A i \in 1..Len(db_events) :
                ~Intersects(req[r].current_time, req[r].current_time + Duration(r),
                            db_events[i].start_time, db_events[i].end_time)

\* The interval [t, t + len) lies in the work hours of its date and overlaps no
\* routine block of that date and no stored event.
FreeOnItsDate(t, len) ==
    LET blocks == CreateRoutineBlocks(user_context, DateOf(t))
    IN  /\ TimeOf(t) >= WorkStartTime(user_context)
        /\ t + len <= Combine(DateOf(t), SequentialWorkEndTime(user_context))
        /\ \A i \in 1..Len(blocks) :
              ~Intersects(t, t + len, blocks[i].start, blocks[i].end)
        /\ \A i \in 1..Len(db_events) :
              ~Intersects(t, t + len, db_events[i].start_time, db_events[i].end_time)

\* C23: a task that schedule_task_sequentially advances to a later day is
\* checked against the routine blocks of that later date: the returned interval
\* overlaps no block of its own date, and when the day after the requested one
\* has a free interval in its work hours the task is placed on that day.
C23_LaterDayUsesItsOwnBlocks ==
    \A r \in Requests :
        LET t == req[r].current_time
            asked == req[r].current_scheduling_time
            len == Duration(r)
            blocks == CreateRoutineBlocks(user_context, DateOf(t))
        IN  (req[r].pc = "returned" /\ DateOf(t) > DateOf(asked)) =>
                /\ \A i \in 1..Len(blocks) :
                      ~Intersects(t, t + len, blocks[i].start, blocks[i].end)
                /\ (\E m \in 0..(MinutesPerDay - 1) :
                        FreeOnItsDate(Combine(DateOf(asked) + 1, m), len))
                      => DateOf(t) = DateOf(asked) + 1

\* C24: with a work-end hour <= 6 in the routine text the work end is 19:00 in
\* schedule_task_sequentially as in find_next_work_slot: a call whose requested
\* interval ends by 19:00 of its day and overlaps no routine block and no
\* stored event returns the requested time, without a nested call.
C24_EarlyWorkEndMeansNineteen ==
    \A r \in Requests :
        LET asked == req[r].current_scheduling_time
            len == Duration(r)
            blocks == req[r].routine_blocks
        IN  ( /\ req[r].pc \in {"sched", "returned", "error"}
              /\ user_context.work # None
              /\ user_context.work[1].end \div 60 <= 6
              /\ asked + len <= Combine(DateOf(asked), 19 * 60)
              /\ \A i \in 1..Len(blocks) :
                    ~Intersects(asked, asked + len, blocks[i].start, blocks[i].end)
              /\ \A i \in 1..Len(db_events) :
                    ~Intersects(asked, asked + len,
                                db_events[i].start_time, db_events[i].end_time) )
            => (req[r].depth = 0 /\ req[r].current_time = asked /\ req[r].pc # "error")

\* C25: in one batch the tasks are placed in input order, each placed task
\* starts at or after the end of the previously placed task plus 15 minutes,
\* schedule_task_sequentially never returns a time earlier than the time it
\* was asked for, and the placed tasks are pairwise non-overlapping.
C25_BatchPlacedInOrderWithoutOverlap ==
    \A r \in Requests :
        LET placed == req[r].scheduled_events
        IN  /\ \A i \in 1..Len(placed) :
                  placed[i].end_time - placed[i].start_time = req[r].batch[i]
            /\ \A i \in 2..Len(placed) :
                  placed[i].start_time >= placed[i - 1].end_time + 15
            /\ req[r].pc = "returned"
                  => req[r].current_time >= req[r].current_scheduling_time
            /\ \A i, j \in 1..Len(placed) :
                  i # j => ~Intersects(placed[i].start_time, placed[i].end_time,
                                       placed[j].start_time, placed[j].end_time)

\* A batch of two placed tasks whose second task was moved to the next day by
\* nested calls of schedule_task_sequentially.
C25_Witness ==
    \E r \in Requests :
        /\ Len(req[r].scheduled_events) = 2
        /\ req[r].depth >= 1
        /\ DateOf(req[r].scheduled_events[2].start_time)
              > DateOf(req[r].scheduled_events[1].start_time)

-----------------------------------------------------------------------------
(* AICalendarService.smart_reschedule_dependent_events                     *)
(* The session is made with autoflush=False: a query reads the committed   *)
(* rows, and the attribute values assigned during the call reach the table *)
(* at db.commit() only.                                                    *)

\* A CalendarEvent row; depends_on_event_ids is None or Some(list of ids).
EventRow(id, user_id, start, minutes, depends_on, dependency_type, auto, buffer) ==
    [id |-> id, user_id |-> user_id, start_time |-> start, end_time |-> start + minutes,
     depends_on_event_ids |-> depends_on, dependency_type |-> dependency_type,
     auto_reschedule_enabled |-> auto, reschedule_buffer_minutes |-> buffer,
     reschedule_count |-> 0]

DigitChars == <<"0", "1", "2", "3", "4", "5", "6", "7", "8", "9">>

\* str(n) of a non-negative integer, as its sequence of characters
RECURSIVE Str(_)
Str(n) == IF n < 10 THEN <<DigitChars[n + 1]>>
          ELSE Str(n \div 10) \o <<DigitChars[(n % 10) + 1]>>

\* json.dumps of a list of integers: "[1, 11]"
RECURSIVE JsonItems(_, _)
JsonItems(ids, i) ==
    IF i > Len(ids) THEN << >>
    ELSE (IF i > 1 THEN <<",", " ">> ELSE << >>) \o Str(ids[i]) \o JsonItems(ids, i + 1)

\* The text the JSON column holds for depends_on_event_ids.
JsonText(depends_on) ==
    IF depends_on = None THEN <<"n", "u", "l", "l">>
    ELSE <<"[">> \o JsonItems(depends_on[1], 1) \o <<"]">>

\* column.like('%' + pattern + '%')
Like(text, pattern) ==
    \E i \in 1..(Len(text) - Len(pattern) + 1) :
        SubSeq(text, i, i + Len(pattern) - 1) = pattern

\* CalendarEvent.depends_on_event_ids.like(f'%{moved_event_id}%')
DependsOnLike(row, moved_event_id) ==
    Like(JsonText(row.depends_on_event_ids), Str(moved_event_id))

\* The positions of the rows a filter selects, in table order.
RECURSIVE SelectRows(_, _, _, _)
SelectRows(rows, i, user_id, moved_event_id) ==
    IF i > Len(rows) THEN << >>
    ELSE (IF rows[i].user_id = user_id /\ DependsOnLike(rows[i], moved_event_id)
          THEN <<i>> ELSE << >>) \o SelectRows(rows, i + 1, user_id, moved_event_id)

\* db.query(CalendarEvent).filter(user_id, depends_on_event_ids.like(...)).all()
DependentEvents(rows, user_id, moved_event_id) ==
    SelectRows(rows, 1, user_id, moved_event_id)

\* db.query(CalendarEvent).filter(id == moved_event_id, user_id).first()
MovedEvent(rows, user_id, moved_event_id) ==
    IF \E i \in 1..Len(rows) : rows[i].id = moved_event_id /\ rows[i].user_id = user_id
    THEN Some(CHOOSE i \in 1..Len(rows) :
                  rows[i].id = moved_event_id /\ rows[i].user_id = user_id)
    ELSE None

\* dependent_event.dependency_type or 'sequential'
DependencyTypeOf(row) ==
    IF row.dependency_type = None THEN "sequential" ELSE row.dependency_type[1]

DefaultBufferMinutes == 15

\* dependent_event.reschedule_buffer_minutes or 15
BufferMinutesOf(row) ==
    IF row.reschedule_buffer_minutes = None \/ row.reschedule_buffer_minutes = Some(0)
    THEN DefaultBufferMinutes ELSE row.reschedule_buffer_minutes[1]

\* "Determine new time based on dependency type"
SuggestedStart(row, new_start_time, new_end_time) ==
    LET buffer_minutes == BufferMinutesOf(row)
        dependency_type == DependencyTypeOf(row)
    IN  IF dependency_type = "sequential" THEN new_end_time + buffer_minutes
        ELSE IF dependency_type = "same_day" THEN
            IF DateOf(new_start_time) = DateOf(row.start_time)
            THEN Max(new_end_time + buffer_minutes, row.start_time)
            ELSE LET moved == Combine(DateOf(new_start_time), TimeOf(row.start_time))
                 IN  IF moved <= new_end_time THEN new_end_time + buffer_minutes
                     ELSE moved
        ELSE row.start_time

\* The count() of the rows of the user, other than exclude_event_id, with
\* start_time < potential_end and end_time > current_time.
ConflictCount(rows, user_id, exclude_event_id, t, potential_end) ==
    Cardinality({i \in 1..Len(rows) :
        /\ rows[i].user_id = user_id
        /\ rows[i].id # exclude_event_id
        /\ rows[i].start_time < potential_end
        /\ rows[i].end_time > t})

MaxSearchDays == 7
SearchStepMinutes == 30
WorkingHourFirst == 8
WorkingHourLast == 20

\* if 8 <= hour <= 20
ReasonableHour(t) == WorkingHourFirst <= HourOf(t) /\ HourOf(t) <= WorkingHourLast

\* while current_time < search_end: ... current_time += timedelta(minutes=30)
\* The loop tries t, t + 30, t + 60, ... while the time is before search_end
\* and returns the first of them that has no conflict and a reasonable hour;
\* it returns None when it has tried them all. steps is the number of
\* iterations the loop has made.
SlotSearchRun(rows, user_id, t, search_end, duration, exclude_event_id) ==
    LET \* the number of k >= 0 with t + k * 30 < search_end
        tries == IF t < search_end
                 THEN (search_end - t + SearchStepMinutes - 1) \div SearchStepMinutes
                 ELSE 0
        At(k) == t + k * SearchStepMinutes
        Accepted(k) ==
            /\ ConflictCount(rows, user_id, exclude_event_id, At(k), At(k) + duration) = 0
            /\ ReasonableHour(At(k))
    IN  IF \E k \in 0..(tries - 1) : Accepted(k)
        THEN LET first == CHOOSE k \in 0..(tries - 1) :
                              Accepted(k) /\ \A j \in 0..(k - 1) : ~Accepted(j)
             IN  [returned |-> Some(At(first)), steps |-> first + 1]
        ELSE [returned |-> None, steps |-> tries]

SlotSearch(rows, user_id, t, search_end, duration, exclude_event_id) ==
    SlotSearchRun(rows, user_id, t, search_end, duration, exclude_event_id).returned

\* A search that falls back to the preferred start when the window is exhausted.
FindConflictFreeSlotOrPreferred(rows, user_id, preferred_start, duration, exclude_event_id) ==
    LET found == SlotSearch(rows, user_id, preferred_start,
                            preferred_start + MaxSearchDays * MinutesPerDay,
                            duration, exclude_event_id)
    IN  IF found = None THEN Some(preferred_start) ELSE found

\* _find_conflict_free_slot(user_id, preferred_start, duration, exclude_event_id, db)
FindConflictFreeSlot(rows, user_id, preferred_start, duration, exclude_event_id) ==
    SlotSearch(rows, user_id, preferred_start,
               preferred_start + MaxSearchDays * MinutesPerDay,
               duration, exclude_event_id)


\* ---- the rows in the table before a call

\* The event that is moved: today 14:00-15:00, with or without a dependency
\* list of its own.
MovedEventRows ==
    {EventRow(1, 1, Combine(0, 14 * 60), 60, None, None, TRUE, Some(15)),
     EventRow(1, 1, Combine(0, 14 * 60), 60, Some(<<11>>), None, TRUE, Some(15))}

DependentStart == Combine(0, 15 * 60 + 30)
DependentMinutes == 30

\* A dependent of event 1, sequential with a buffer of 15 minutes, to be
\* moved or not.
PlainDependent(id, auto) ==
    EventRow(id, 1, DependentStart, DependentMinutes, Some(<<1>>), Some("sequential"),
             auto, Some(15))

\* Rows after the moved event: dependents of event 1 of every dependency type
\* with a buffer of 15, a sequential one with a buffer of 0 and one without a
\* type and a buffer; a dependent that is not to be moved; rows whose
\* dependency list is absent or names other events; a row of another user; a
\* before_deadline dependent that starts at 07:00.
LaterRows(id) ==
    {EventRow(id, 1, DependentStart, DependentMinutes, Some(<<1>>), Some(type), TRUE,
              Some(15)) : type \in {"sequential", "same_day", "before_deadline"}}
    \cup {EventRow(id, 1, DependentStart, DependentMinutes, Some(<<1>>), Some("sequential"),
                   TRUE, Some(0))}
    \cup {EventRow(id, 1, DependentStart, DependentMinutes, Some(<<1>>), None, TRUE, None)}
    \cup {PlainDependent(id, FALSE)}
    \cup {EventRow(id, 1, DependentStart, DependentMinutes, deps,
                   Some("sequential"), TRUE, Some(15)) :
              deps \in {None, Some(<<11>>), Some(<<2, 1>>)}}
    \cup {EventRow(id, 2, DependentStart, DependentMinutes, Some(<<1>>),
                   Some("sequential"), TRUE, Some(15))}
    \cup {EventRow(id, 1, Combine(0, 7 * 60), DependentMinutes, Some(<<1>>),
                   Some("before_deadline"), TRUE, Some(15))}

\* Another event of the user: a meeting of half an hour.
Meeting(id) == EventRow(id, 1, Combine(0, 17 * 60 + 15), 30, None, None, TRUE, Some(15))

\* An event of nine days that covers every start the search can try.
LongEvent(id) == EventRow(id, 1, Combine(0, 12 * 60), 9 * MinutesPerDay, None, None, TRUE, Some(15))

\* The lists of k rows after the moved event, with the ids 2 .. k + 1.
LaterRowLists(k) ==
    {l \in [1..k -> UNION {LaterRows(i) : i \in 2..(k + 1)}] : \A i \in 1..k : l[i].id = i + 1}

BlockedRows(id) == {PlainDependent(id, TRUE), PlainDependent(id, FALSE)}

BlockedRowLists(k) ==
    {l \in [1..k -> UNION {BlockedRows(i) : i \in 2..(k + 1)}] : \A i \in 1..k : l[i].id = i + 1}

\* The tables: the moved event, up to MaxDependents later rows, and at most
\* one other event; ids follow the order of insertion. The tables with the
\* long event hold plain dependents only.
StoredTables ==
    UNION {
        {<<e>> \o later \o other :
            e \in MovedEventRows,
            later \in LaterRowLists(k),
            other \in {<< >>, <<Meeting(k + 2)>>}}
        \cup
        {<<e>> \o later \o <<LongEvent(k + 2)>> :
            e \in MovedEventRows,
            later \in BlockedRowLists(k)}
        : k \in 0..MaxDependents}

\* new_start_time: today 16:00, earlier today, late today (19:00 and 20:30),
\* tomorrow morning
NewStartTimes ==
    {Combine(0, 16 * 60), Combine(0, 13 * 60 + 30), Combine(0, 19 * 60),
     Combine(0, 20 * 60 + 30), Combine(1, 10 * 60)}

\* The arguments of a call: event 1 at each new start, and an id no row has.
RescheduleCalls ==
    {[moved_event_id |-> 1, new_start_time |-> t] : t \in NewStartTimes}
    \cup {[moved_event_id |-> 9, new_start_time |-> Combine(0, 16 * 60)]}

\* The state at the entry of smart_reschedule_dependent_events.
NewCall(rows, call, run, first) ==
    [pc |-> "start", moved_event_id |-> call.moved_event_id,
     new_start_time |-> call.new_start_time, user_id |-> 1,
     before |-> rows, session |-> rows, dependent_events |-> << >>, dep_idx |-> 1,
     new_end_time |-> 0, rescheduled_events |-> << >>, conflicts |-> << >>,
     search_steps |-> 0, updated |-> {}, result |-> "none", run |-> run, first |-> first]

ReschedInputs ==
    /\ store \in StoredTables
    /\ rs \in {NewCall(store, call, 1, << >>) : call \in RescheduleCalls}


\* ---- the steps of a call

\* The other variables of the model.
OthersUnchanged == UNCHANGED <<today_weekday, vars_slots, vars_scorer, vars_placer>>

\* The dependent the loop is at: its position in the table and its object in
\* the session.
DepPos == rs.dependent_events[rs.dep_idx]
Dep == rs.session[DepPos]

\* A failure path that writes what the session holds.
RollbackWritesSession(rows, session) == session

\* db.rollback() after an exception: the table keeps the committed rows and
\* the values assigned in the session are dropped.
Rollback(rows, session) == rows

\* db.commit(): the values assigned in the session are written.
Commit(rows, session) == session

\* except Exception: db.rollback(); return {'success': False, ...}
Failed ==
    /\ store' = Rollback(store, rs.session)
    /\ rs' = [rs EXCEPT !.pc = "done", !.result = "failed"]

\* if not moved_event: return {'success': False, 'error': 'Event not found'}
EventNotFound ==
    /\ rs.pc = "start"
    /\ MovedEvent(store, rs.user_id, rs.moved_event_id) = None
    /\ rs' = [rs EXCEPT !.pc = "done", !.result = "not_found"]
    /\ UNCHANGED store
    /\ OthersUnchanged

\* The moved event and its dependents are queried, and the moved event gets
\* its new start and end and one more reschedule_count, in the session.
BeginReschedule ==
    LET found == MovedEvent(store, rs.user_id, rs.moved_event_id)
        m == found[1]
        original_duration == store[m].end_time - store[m].start_time
        new_end_time == rs.new_start_time + original_duration
    IN  /\ rs.pc = "start"
        /\ found # None
        /\ rs' = [rs EXCEPT
                    !.pc = "loop",
                    !.before = store,
                    !.dependent_events = DependentEvents(store, rs.user_id, rs.moved_event_id),
                    !.dep_idx = 1,
                    !.new_end_time = new_end_time,
                    !.session = [store EXCEPT ![m] =
                                    [@ EXCEPT !.start_time = rs.new_start_time,
                                              !.end_time = new_end_time,
                                              !.reschedule_count = @ + 1]],
                    !.updated = {m}]
        /\ UNCHANGED store
        /\ OthersUnchanged

\* A loop that does not look at auto_reschedule_enabled.
AutoRescheduleFlagIgnored(row) == FALSE

\* if not dependent_event.auto_reschedule_enabled
AutoRescheduleDisabled(row) == ~row.auto_reschedule_enabled

\* A dependent with auto-reschedule disabled: a conflict is reported and the
\* loop continues.
SkipDisabled ==
    /\ rs.pc = "loop"
    /\ rs.dep_idx <= Len(rs.dependent_events)
    /\ AutoRescheduleDisabled(Dep)
    /\ rs' = [rs EXCEPT
                !.conflicts = Append(@, [event_id |-> Dep.id,
                                         reason |-> "Auto-reschedule disabled"]),
                !.dep_idx = @ + 1]
    /\ UNCHANGED store
    /\ OthersUnchanged

\* suggested_start and the result of _find_conflict_free_slot for the
\* dependent the loop is at.
SuggestedStartOfDep == SuggestedStart(Dep, rs.new_start_time, rs.new_end_time)
FinalStartOfDep ==
    FindConflictFreeSlot(store, rs.user_id, SuggestedStartOfDep,
                         Dep.end_time - Dep.start_time, Dep.id)

\* The iterations of the while loop in that call.
SearchStepsOfDep ==
    SlotSearchRun(store, rs.user_id, SuggestedStartOfDep,
                  SuggestedStartOfDep + MaxSearchDays * MinutesPerDay,
                  Dep.end_time - Dep.start_time, Dep.id).steps

\* if final_start_time: the dependent gets its new time in the session and is
\* listed in rescheduled_events.
RescheduleDependent ==
    LET event_duration == Dep.end_time - Dep.start_time
        final == FinalStartOfDep
    IN  /\ rs.pc = "loop"
        /\ rs.dep_idx <= Len(rs.dependent_events)
        /\ ~AutoRescheduleDisabled(Dep)
        /\ final # None
        /\ rs' = [rs EXCEPT
                    !.session = [@ EXCEPT ![DepPos] =
                                    [@ EXCEPT !.start_time = final[1],
                                              !.end_time = final[1] + event_duration,
                                              !.reschedule_count = @ + 1]],
                    !.updated = @ \cup {DepPos},
                    !.rescheduled_events =
                        Append(@, [event_id |-> Dep.id,
                                   old_time |-> SuggestedStartOfDep,
                                   new_time |-> final[1],
                                   dependency_type |-> DependencyTypeOf(Dep)]),
                    !.search_steps = SearchStepsOfDep,
                    !.dep_idx = @ + 1]
        /\ UNCHANGED store
        /\ OthersUnchanged

\* else: no slot in the window, a conflict is reported.
NoSlotFound ==
    /\ rs.pc = "loop"
    /\ rs.dep_idx <= Len(rs.dependent_events)
    /\ ~AutoRescheduleDisabled(Dep)
    /\ FinalStartOfDep = None
    /\ rs' = [rs EXCEPT
                !.conflicts = Append(@, [event_id |-> Dep.id,
                                         reason |-> "No available time slot found"]),
                !.search_steps = SearchStepsOfDep,
                !.dep_idx = @ + 1]
    /\ UNCHANGED store
    /\ OthersUnchanged

\* A query of _find_conflict_free_slot raises (the database is unreachable).
SearchFails ==
    /\ rs.pc = "loop"
    /\ rs.dep_idx <= Len(rs.dependent_events)
    /\ ~AutoRescheduleDisabled(Dep)
    /\ Failed
    /\ OthersUnchanged

\* "Commit all changes" and the success response.
CommitChanges ==
    /\ rs.pc = "loop"
    /\ rs.dep_idx > Len(rs.dependent_events)
    /\ store' = Commit(store, rs.session)
    /\ rs' = [rs EXCEPT !.pc = "done", !.result = "success"]
    /\ OthersUnchanged

\* db.commit() raises: nothing of the transaction is written.
CommitFails ==
    /\ rs.pc = "loop"
    /\ rs.dep_idx > Len(rs.dependent_events)
    /\ Failed
    /\ OthersUnchanged

\* The same call once more, right after the first has succeeded.
RepeatCall ==
    /\ rs.pc = "done"
    /\ rs.result = "success"
    /\ rs.run = 1
    /\ rs' = NewCall(store, [moved_event_id |-> rs.moved_event_id,
                             new_start_time |-> rs.new_start_time], 2, store)
    /\ UNCHANGED store
    /\ OthersUnchanged

InitReschedule ==
    today_weekday = 0 /\ ReschedInputs /\ SlotsIdle /\ ScorerIdle /\ PlacerIdle

NextReschedule ==
    \/ EventNotFound
    \/ BeginReschedule
    \/ SkipDisabled
    \/ RescheduleDependent
    \/ NoSlotFound
    \/ SearchFails
    \/ CommitChanges
    \/ CommitFails
    \/ RepeatCall

SpecReschedule == InitReschedule /\ [][NextReschedule]_vars


-----------------------------------------------------------------------------
(* Two requests of intelligent_task_breakdown of one user at the same      *)
(* time: each has its own session, reads the committed rows at each query  *)
(* of schedule_task_sequentially and commits each event as it places it.   *)

ConcurrentInputs ==
    /\ now \in RequestTimes
    /\ user_context \in RoutineTexts
    /\ db_events \in SeqsUpTo(StoredEventRecords, MaxDbEvents)
    /\ req \in {<<NewRequest(b1), NewRequest(b2)>> :
                    b1 \in SeqsUpTo(TaskDurations, MaxConcurrentTasks),
                    b2 \in SeqsUpTo(TaskDurations, MaxConcurrentTasks)}

InitConcurrent == today_weekday = 0 /\ ConcurrentInputs /\ SlotsIdle /\ ScorerIdle /\ ReschedIdle

SpecConcurrent == InitConcurrent /\ [][NextPlacer]_vars

\* C11: two concurrent batch-placement requests of one user never both commit
\* events whose [start, end) intervals overlap each other.
C11_ConcurrentRequestsDisjoint ==
    \A r1 \in Requests : \A r2 \in Requests \ {r1} :
        \A i \in 1..Len(req[r1].scheduled_events) :
            \A j \in 1..Len(req[r2].scheduled_events) :
                ~Intersects(req[r1].scheduled_events[i].start_time,
                            req[r1].scheduled_events[i].end_time,
                            req[r2].scheduled_events[j].start_time,
                            req[r2].scheduled_events[j].end_time)

\* C12: schedule_task_sequentially ends with a placement or a 'no slot'
\* outcome for every input and never raises an error.
C12_SequentialNeverRaises ==
    \A r \in Requests : req[r].pc # "error"

-----------------------------------------------------------------------------
(* Properties of smart_reschedule_dependent_events                         *)

\* E.id \in D.depends_on_event_ids
DependsOn(row, event_id) ==
    /\ row.depends_on_event_ids # None
    /\ \E j \in 1..Len(row.depends_on_event_ids[1]) : row.depends_on_event_ids[1][j] = event_id

\* The positions of the dependents of the moved event: the other events of the
\* user whose dependency list holds the id of the moved event.
Dependents ==
    {i \in 1..Len(store) :
        /\ store[i].user_id = rs.user_id
        /\ store[i].id # rs.moved_event_id
        /\ DependsOn(store[i], rs.moved_event_id)}

Succeeded == rs.pc = "done" /\ rs.result = "success"

\* C13: the same call twice in a row leaves every dependent with the same
\* start_time after the second run as after the first.
C13_SecondRunKeepsStartTimes ==
    (Succeeded /\ rs.run = 2) =>
        \A i \in Dependents : store[i].start_time = rs.first[i].start_time

\* No event of the user other than row i overlaps [t, t + minutes) in rows.
FreeOfOthers(rows, i, t, minutes) ==
    \A j \in 1..Len(rows) :
        (j # i /\ rows[j].user_id = rs.user_id) =>
            ~Intersects(t, t + minutes, rows[j].start_time, rows[j].end_time)

\* C14: a sequential dependent with auto-reschedule enabled, whose candidate
\* interval no other event overlaps, starts exactly at the moved event's new
\* end plus its reschedule_buffer_minutes (0 included) and keeps its duration.
C14_SequentialStartsAfterBuffer ==
    Succeeded =>
        \A i \in Dependents :
            LET D == rs.before[i]
                minutes == D.end_time - D.start_time
                candidate == rs.new_end_time + D.reschedule_buffer_minutes[1]
            IN  (/\ DependencyTypeOf(D) = "sequential"
                 /\ D.auto_reschedule_enabled
                 /\ D.reschedule_buffer_minutes # None
                 /\ FreeOfOthers(rs.before, i, candidate, minutes)
                 /\ FreeOfOthers(store, i, candidate, minutes))
                => /\ store[i].start_time = candidate
                   /\ store[i].end_time = candidate + minutes

\* The ids a call has listed in rescheduled_events or in conflicts.
ReportedIds ==
    {rs.rescheduled_events[k].event_id : k \in 1..Len(rs.rescheduled_events)}
    \cup {rs.conflicts[k].event_id : k \in 1..Len(rs.conflicts)}

\* C15: the events treated as dependents of the moved event E are exactly the
\* user's events whose depends_on_event_ids holds E.id; an event whose list
\* holds only other ids is neither moved nor reported.
C15_DependentsAreThoseListingTheId ==
    (rs.pc \in {"loop", "done"} /\ rs.result # "not_found") =>
        /\ {rs.dependent_events[k] : k \in 1..Len(rs.dependent_events)}
               = {i \in 1..Len(rs.before) :
                     /\ rs.before[i].user_id = rs.user_id
                     /\ DependsOn(rs.before[i], rs.moved_event_id)}
        /\ \A i \in 1..Len(store) :
               (~DependsOn(rs.before[i], rs.moved_event_id)
                    /\ store[i].id # rs.moved_event_id)
               => /\ store[i] = rs.before[i]
                  /\ store[i].id \notin ReportedIds

ConflictIds == {rs.conflicts[k].event_id : k \in 1..Len(rs.conflicts)}
RescheduledIds == {rs.rescheduled_events[k].event_id : k \in 1..Len(rs.rescheduled_events)}

\* C16: a dependent with auto_reschedule_enabled = false keeps its start_time,
\* end_time and reschedule_count, in the session and in the table, and is in
\* the conflicts list of the response; the dependents after it are processed
\* as well: each dependent is in rescheduled_events or in conflicts.
C16_DisabledDependentStaysAndIsReported ==
    rs.pc \in {"loop", "done"} =>
        /\ \A i \in Dependents :
               ~rs.before[i].auto_reschedule_enabled =>
                   /\ store[i] = rs.before[i]
                   /\ rs.session[i] = rs.before[i]
                   /\ Succeeded => store[i].id \in ConflictIds
        /\ Succeeded => \A i \in Dependents : store[i].id \in ReportedIds

\* A successful call in which a dependent that is not to be moved comes before
\* a dependent that was moved.
C16_Witness ==
    /\ Succeeded
    /\ \E i \in Dependents : \E j \in Dependents :
           /\ i < j
           /\ ~rs.before[i].auto_reschedule_enabled
           /\ store[i].id \in ConflictIds
           /\ store[j].id \in RescheduledIds
           /\ store[j].reschedule_count = rs.before[j].reschedule_count + 1

\* C17: after a successful call every dependent listed in rescheduled_events
\* occupies an interval that overlaps no other event of the user: the moved
\* event at its new time, the other dependents at their final times, and the
\* unrelated events.
C17_RescheduledOverlapNothing ==
    Succeeded =>
        \A i \in 1..Len(store) :
            store[i].id \in RescheduledIds =>
                FreeOfOthers(store, i, store[i].start_time,
                             store[i].end_time - store[i].start_time)

\* C18: every start _find_conflict_free_slot returns lies in the working hours
\* 08:00-20:00 (none is later than 20:00), is the candidate plus a whole
\* number of 30-minute steps, and is less than 7 days after the candidate.
C18_ReturnedStartInWorkingHours ==
    rs.pc \in {"loop", "done"} =>
        \A k \in 1..Len(rs.rescheduled_events) :
            LET candidate == rs.rescheduled_events[k].old_time
                returned == rs.rescheduled_events[k].new_time
            IN  /\ 8 * 60 <= TimeOf(returned)
                /\ TimeOf(returned) <= 20 * 60
                /\ returned >= candidate
                /\ (returned - candidate) % 30 = 0
                /\ returned - candidate < 7 * MinutesPerDay

\* The positions of the dependents the loop has gone through.
Processed == {rs.dependent_events[k] : k \in 1..(rs.dep_idx - 1)}

\* Every start that is the candidate plus a number of half hours and less
\* than 7 days after it is at an unreasonable hour or overlaps an event of the
\* user other than row i.
NoSlotInWindow(rows, i, candidate) ==
    \A k \in 0..(7 * 48 - 1) :
        LET t == candidate + 30 * k
        IN  \/ HourOf(t) < 8
            \/ HourOf(t) > 20
            \/ ~FreeOfOthers(rows, i, t, rows[i].end_time - rows[i].start_time)

\* C19: a dependent for which no conflict-free slot exists in the 7-day window
\* is reported in the conflicts list and keeps its start_time and end_time,
\* and the search has ended after at most 7 * 48 steps.
C19_NoSlotIsReportedAsConflict ==
    rs.pc \in {"loop", "done"} =>
        /\ rs.search_steps <= 7 * 48
        /\ \A i \in Dependents \cap Processed :
               (/\ rs.before[i].auto_reschedule_enabled
                /\ NoSlotInWindow(rs.before, i,
                                  SuggestedStart(rs.before[i], rs.new_start_time,
                                                 rs.new_end_time)))
               => /\ rs.before[i].id \in ConflictIds
                  /\ rs.before[i].id \notin RescheduledIds
                  /\ rs.session[i] = rs.before[i]
                  /\ store[i].start_time = rs.before[i].start_time
                  /\ store[i].end_time = rs.before[i].end_time

\* A dependent that is to be moved has been reported with "No available time
\* slot found" after a search over the whole window.
C19_Witness ==
    /\ rs.pc \in {"loop", "done"}
    /\ rs.search_steps = 7 * 48
    /\ \E i \in Dependents \cap Processed :
           /\ rs.before[i].auto_reschedule_enabled
           /\ \E k \in 1..Len(rs.conflicts) :
                  /\ rs.conflicts[k].event_id = rs.before[i].id
                  /\ rs.conflicts[k].reason = "No available time slot found"

\* C20: the call is all-or-nothing: when a failure occurs after the moved
\* event or some dependents were updated, during a search or at the commit,
\* the call reports failure and every stored row has the start_time, end_time
\* and reschedule_count it had before the call; nothing is stored before the
\* commit.
C20_FailureLeavesTableUnchanged ==
    (rs.pc = "loop" \/ (rs.pc = "done" /\ rs.result = "failed")) =>
        /\ Len(store) = Len(rs.before)
        /\ \A i \in 1..Len(store) :
               /\ store[i].start_time = rs.before[i].start_time
               /\ store[i].end_time = rs.before[i].end_time
               /\ store[i].reschedule_count = rs.before[i].reschedule_count

\* A failed call in which the moved event and a dependent had got new times.
C20_Witness ==
    /\ rs.pc = "done"
    /\ rs.result = "failed"
    /\ Cardinality(rs.updated) >= 2
    /\ \A i \in rs.updated : rs.session[i].start_time # rs.before[i].start_time

\* C26: a same_day dependent that the call reschedules ends up on the calendar
\* date of the moved event's new start and starts at or after the moved
\* event's new end, whatever the new time and the other events are.
C26_SameDayStaysOnNewDate ==
    Succeeded =>
        \A i \in Dependents :
            (/\ DependencyTypeOf(rs.before[i]) = "same_day"
             /\ store[i].id \in RescheduledIds)
            => /\ DateOf(store[i].start_time) = DateOf(rs.new_start_time)
               /\ store[i].start_time >= rs.new_end_time

\* C27: a before_deadline dependent with auto-reschedule enabled whose original
\* interval overlaps no other event, before the call and after it, keeps its
\* original start_time and end_time, at whatever time of day it starts.
C27_BeforeDeadlineKeepsItsTime ==
    Succeeded =>
        \A i \in Dependents :
            LET D == rs.before[i]
                minutes == D.end_time - D.start_time
            IN  (/\ DependencyTypeOf(D) = "before_deadline"
                 /\ D.auto_reschedule_enabled
                 /\ FreeOfOthers(rs.before, i, D.start_time, minutes)
                 /\ FreeOfOthers(store, i, D.start_time, minutes))
                => /\ store[i].start_time = D.start_time
                   /\ store[i].end_time = D.end_time

\* C30: a successful call changes the moved event (start = the requested new
\* start, duration preserved, reschedule_count + 1) and the dependents it
\* lists in rescheduled_events (reschedule_count + 1 each) and no other
\* event, and events_rescheduled + conflicts_found = total_affected.
C30_OnlyMovedAndListedEventsChange ==
    Succeeded =>
        /\ \A i \in 1..Len(store) :
              LET B == rs.before[i]
              IN  IF B.id = rs.moved_event_id /\ B.user_id = rs.user_id
                  THEN /\ store[i].start_time = rs.new_start_time
                       /\ store[i].end_time - store[i].start_time
                             = B.end_time - B.start_time
                       /\ store[i].reschedule_count = B.reschedule_count + 1
                  ELSE IF B.id \in RescheduledIds
                  THEN store[i].reschedule_count = B.reschedule_count + 1
                  ELSE store[i] = B
        /\ Len(rs.rescheduled_events) + Len(rs.conflicts) = Len(rs.dependent_events)

====
